---- MODULE Spec2Model ----
(***************************************************************************)
(* Model of terraform-provider-kubewait: the condition checker of          *)
(* internal/kubernetes/conditions.go (polling driver WaitForCondition,     *)
(* CheckCondition, the per-kind strategies) as a state machine.            *)
(*                                                                         *)
(* Go strings that the code inspects character by character (the resource  *)
(* kind, the condition expression) are sequences of one-character strings. *)
(* Formatted messages are records [fmt, params]: the format string of the  *)
(* fmt.Sprintf / fmt.Errorf call and its arguments.                        *)
(* Time is a discrete clock `now`; one unit is one second of the Go clock. *)
(***************************************************************************)
EXTENDS Integers, Sequences, FiniteSets, TLC

(***************************************************************************)
(* Bounds of the model.                                                    *)
(***************************************************************************)
\* longest object list a list call returns
MaxObjs == 2
\* longest time (in clock units) one list call may block
MaxListDelay == 1

(***************************************************************************)
(* String literals of the source, as character sequences.                  *)
(***************************************************************************)
s_node == <<"n","o","d","e">>
s_nodes == <<"n","o","d","e","s">>
s_pod == <<"p","o","d">>
s_pods == <<"p","o","d","s">>
s_Pods == <<"P","o","d","s">>
s_deployment == <<"d","e","p","l","o","y","m","e","n","t">>
s_deployments == <<"d","e","p","l","o","y","m","e","n","t","s">>
s_service == <<"s","e","r","v","i","c","e">>
s_services == <<"s","e","r","v","i","c","e","s">>
s_daemonset == <<"d","a","e","m","o","n","s","e","t">>
s_daemonsets == <<"d","a","e","m","o","n","s","e","t","s">>
s_statefulset == <<"s","t","a","t","e","f","u","l","s","e","t">>
s_statefulsets == <<"s","t","a","t","e","f","u","l","s","e","t","s">>
s_job == <<"j","o","b">>
s_jobs == <<"j","o","b","s">>
s_cronjob == <<"c","r","o","n","j","o","b">>
s_cronjobs == <<"c","r","o","n","j","o","b","s">>
s_ingress == <<"i","n","g","r","e","s","s">>
s_ingresses == <<"i","n","g","r","e","s","s","e","s">>
s_widgets == <<"w","i","d","g","e","t","s">>

s_condition == <<"c","o","n","d","i","t","i","o","n">>
s_phase == <<"p","h","a","s","e">>
s_ready == <<"r","e","a","d","y">>
s_complete == <<"c","o","m","p","l","e","t","e">>
s_jsonpath == <<"j","s","o","n","p","a","t","h">>
s_exist == <<"e","x","i","s","t">>
s_exists == <<"e","x","i","s","t","s">>
s_loadbalancer == <<"l","o","a","d","b","a","l","a","n","c","e","r">>

s_Ready == <<"R","e","a","d","y">>
s_Available == <<"A","v","a","i","l","a","b","l","e">>
s_Running == <<"R","u","n","n","i","n","g">>
s_Pending == <<"P","e","n","d","i","n","g">>
s_true == <<"t","r","u","e">>
s_eq == <<"=">>

\* condition expressions a caller passes in the `for` attribute
c_conditionReady == s_condition \o s_eq \o s_Ready
c_conditionAvailable == s_condition \o s_eq \o s_Available
c_phaseRunning == s_phase \o s_eq \o s_Running
c_readyTrue == s_ready \o s_eq \o s_true
c_completeTrue == s_complete \o s_eq \o s_true
c_existsTrue == s_exists \o s_eq \o s_true
c_loadbalancerTrue == s_loadbalancer \o s_eq \o s_true
c_jsonpathEq3 == s_jsonpath \o s_eq \o <<"{",".","a","}","=","3">>
c_jsonpathReadyReplicas ==
    s_jsonpath \o s_eq
    \o <<"{",".","s","t","a","t","u","s",".","r","e","a","d","y",
         "R","e","p","l","i","c","a","s","}","=","3">>
c_jsonpathReadyReplicasEq1 ==
    s_jsonpath \o s_eq
    \o <<"{",".","s","t","a","t","u","s",".","r","e","a","d","y",
         "R","e","p","l","i","c","a","s","}","=","1">>
c_spacedUpper == <<" ","C","o","n","d","i","t","i","o","n"," ","="," ">> \o s_Ready \o <<" ">>
c_malformed == s_Ready
c_fooBar == <<"f","o","o","=","b","a","r">>

(***************************************************************************)
(* The functions of package strings the code uses.                         *)
(***************************************************************************)
UpperChars == <<"A","B","C","D","E","F","G","H","I","J","K","L","M","N","O","P","Q","R","S","T","U","V","W","X","Y","Z">>
LowerChars == <<"a","b","c","d","e","f","g","h","i","j","k","l","m","n","o","p","q","r","s","t","u","v","w","x","y","z">>

ToLowerChar(ch) ==
    IF \E i \in 1..Len(UpperChars) : UpperChars[i] = ch
    THEN LowerChars[CHOOSE i \in 1..Len(UpperChars) : UpperChars[i] = ch]
    ELSE ch

\* strings.ToLower
ToLower(s) == [i \in 1..Len(s) |-> ToLowerChar(s[i])]

IsSpace(ch) == ch \in {" ", "\t", "\n", "\r"}

\* strings.TrimSpace: drops the white space at both ends only
TrimSpace(s) ==
    IF \A i \in 1..Len(s) : IsSpace(s[i])
    THEN <<>>
    ELSE LET first == CHOOSE i \in 1..Len(s) :
                         ~IsSpace(s[i]) /\ \A j \in 1..(i-1) : IsSpace(s[j])
             last == CHOOSE i \in 1..Len(s) :
                         ~IsSpace(s[i]) /\ \A j \in (i+1)..Len(s) : IsSpace(s[j])
         IN SubSeq(s, first, last)

\* variant of SplitN2 that cuts at the last "="
SplitAtLast(s) ==
    IF \E i \in 1..Len(s) : s[i] = "="
    THEN LET cut == CHOOSE i \in 1..Len(s) :
                       s[i] = "=" /\ \A j \in (i+1)..Len(s) : s[j] # "="
         IN <<SubSeq(s, 1, cut - 1), SubSeq(s, cut + 1, Len(s))>>
    ELSE <<s>>

\* strings.SplitN(s, "=", 2): at most two parts, cut at the first "="
SplitN2(s) ==
    IF \E i \in 1..Len(s) : s[i] = "="
    THEN LET cut == CHOOSE i \in 1..Len(s) :
                       s[i] = "=" /\ \A j \in 1..(i-1) : s[j] # "="
         IN <<SubSeq(s, 1, cut - 1), SubSeq(s, cut + 1, Len(s))>>
    ELSE <<s>>

\* strings.HasSuffix(s, "s")
HasSuffixS(s) == Len(s) > 0 /\ s[Len(s)] = "s"

\* strings.TrimSuffix(s, "s")
TrimSuffixS(s) == IF HasSuffixS(s) THEN SubSeq(s, 1, Len(s) - 1) ELSE s

(***************************************************************************)
(* Messages and errors.                                                    *)
(***************************************************************************)
Msg(f, a) == [fmt |-> f, params |-> a]

NoError == [kind |-> "nil", msg |-> Msg("", <<>>)]

Err(k, f, a) == [kind |-> k, msg |-> Msg(f, a)]

\* WaitResult of the source; LastChecked is a clock value
WaitResult(met, checked, message) ==
    [ConditionMet |-> met, LastChecked |-> checked, Message |-> message]

\* ConditionChecker.parseCondition
parseCondition(Condition) ==
    LET parts == SplitN2(Condition)
    IN IF Len(parts) # 2
       THEN [conditionType |-> <<>>, conditionValue |-> <<>>,
             err |-> Err("format", "condition must be in format 'type=value'", <<>>)]
       ELSE [conditionType |-> ToLower(TrimSpace(parts[1])),
             conditionValue |-> TrimSpace(parts[2]),
             err |-> NoError]

(***************************************************************************)
(* Remote objects.  One record shape serves every kind; a strategy reads   *)
(* only the status fields of its own kind.  Replicas is a pointer in the   *)
(* source: <<>> is nil, <<n>> points to n.                                 *)
(***************************************************************************)
GoodStatus ==
    [Conditions |-> <<[Type |-> s_Ready, Status |-> "True"],
                      [Type |-> s_Available, Status |-> "True"]>>,
     Phase |-> s_Running,
     DesiredNumberScheduled |-> 1, NumberReady |-> 1,
     Replicas |-> <<1>>, ReadyReplicas |-> 1,
     Succeeded |-> 1, LoadBalancerIngress |-> 1]

BadStatus ==
    [Conditions |-> <<[Type |-> s_Ready, Status |-> "False"],
                      [Type |-> s_Available, Status |-> "False"]>>,
     Phase |-> s_Pending,
     DesiredNumberScheduled |-> 1, NumberReady |-> 0,
     Replicas |-> <<1>>, ReadyReplicas |-> 0,
     Succeeded |-> 0, LoadBalancerIngress |-> 0]

\* no conditions reported yet, nil replica pointer
BareStatus ==
    [Conditions |-> <<>>,
     Phase |-> s_Pending,
     DesiredNumberScheduled |-> 0, NumberReady |-> 0,
     Replicas |-> <<>>, ReadyReplicas |-> 0,
     Succeeded |-> 0, LoadBalancerIngress |-> 0]

Object(name, status) == [Name |-> name, Status |-> status]

\* the objects of the modelled cluster, in the states a list call can see
Objects ==
    {Object("my-app", GoodStatus), Object("my-app", BadStatus),
     Object("other", GoodStatus), Object("other", BareStatus)}

\* the item lists a list call can return
ObjectLists == UNION {[1..n -> Objects] : n \in 0..MaxObjs}

\* errors of a failed list call: a transport failure or rejected credentials
ListErrors == {Err("transport", "connection refused", <<>>),
               Err("auth", "Unauthorized", <<>>)}

\* what one call of the typed client's List returns
ListOutcomes ==
    {[err |-> NoError, Items |-> l] : l \in ObjectLists}
    \cup {[err |-> e, Items |-> <<>>] : e \in ListErrors}

(***************************************************************************)
(* Helpers shared by the strategies.                                       *)
(***************************************************************************)
\* the loop `for _, x := range items { if x.Name == name { append } }`
FilterByName(items, name) == SelectSeq(items, LAMBDA o : o.Name = name)

\* the filter of the deployment-style strategies: the list is emptied when
\* no item carries the name and is left as it is otherwise
KeepIfFound(items, name) ==
    IF \E i \in 1..Len(items) : items[i].Name = name THEN items ELSE <<>>

\* the inner loop over x.Status.Conditions
HasTrueCondition(o, conditionValue) ==
    \E i \in 1..Len(o.Status.Conditions) :
        /\ o.Status.Conditions[i].Type = conditionValue
        /\ o.Status.Conditions[i].Status = "True"

\* the counting loop: tests[i] tells whether the loop body increments the
\* counter for the i-th item
CountTrue(tests) == Cardinality({i \in DOMAIN tests : tests[i]})

\* the `if c.Config.All {...} else {...}` block closing a strategy
Aggregate(cfg, ready, total, format, checked) ==
    [result |-> WaitResult(IF cfg.All THEN ready = total ELSE ready > 0,
                           checked,
                           Msg(format, <<ready, total, cfg.Condition>>)),
     err |-> NoError]

\* the `if err != nil` block after the list call
ListFailed(format, listed, checked) ==
    [result |-> WaitResult(FALSE, checked, Msg(format, <<listed.err>>)),
     err |-> listed.err]

\* the `if len(items) == 0` block
NoneFound(literal, checked) ==
    [result |-> WaitResult(FALSE, checked, Msg(literal, <<>>)),
     err |-> NoError]

(***************************************************************************)
(* The strategies.  recv is the ConditionChecker the method value is bound *)
(* to, listed the outcome of the strategy's one list call, checked the     *)
(* clock value read at the top of the strategy.                            *)
(***************************************************************************)
\* variant of checkNodeCondition that rejects a condition kind it has no
\* branch for
checkNodeConditionRejectsUnknown(recv, checked, conditionType, conditionValue, listed) ==
    LET cfg == recv.Config
        items == IF cfg.Name # "" THEN FilterByName(listed.Items, cfg.Name)
                 ELSE listed.Items
        Test(o) == conditionType = s_condition /\ HasTrueCondition(o, conditionValue)
    IN IF listed.err # NoError
       THEN ListFailed("Failed to list nodes: %s", listed, checked)
       ELSE IF Len(items) = 0
       THEN NoneFound("No matching nodes found", checked)
       ELSE IF conditionType # s_condition
       THEN [result |-> WaitResult(FALSE, checked,
                           Msg("unsupported condition type %s", <<conditionType>>)),
             err |-> Err("unsupported", "unsupported condition type %s",
                         <<conditionType>>)]
       ELSE Aggregate(cfg, CountTrue([i \in 1..Len(items) |-> Test(items[i])]),
                      Len(items),
                      "%d/%d nodes meet condition %s", checked)

checkNodeCondition(recv, checked, conditionType, conditionValue, listed) ==
    LET cfg == recv.Config
        items == IF cfg.Name # "" THEN FilterByName(listed.Items, cfg.Name)
                 ELSE listed.Items
        Test(o) == conditionType = s_condition /\ HasTrueCondition(o, conditionValue)
    IN IF listed.err # NoError
       THEN ListFailed("Failed to list nodes: %s", listed, checked)
       ELSE IF Len(items) = 0
       THEN NoneFound("No matching nodes found", checked)
       ELSE Aggregate(cfg, CountTrue([i \in 1..Len(items) |-> Test(items[i])]),
                      Len(items),
                      "%d/%d nodes meet condition %s", checked)

checkPodCondition(recv, checked, conditionType, conditionValue, listed) ==
    LET cfg == recv.Config
        items == IF cfg.Name # "" THEN FilterByName(listed.Items, cfg.Name)
                 ELSE listed.Items
        Test(o) == IF conditionType = s_condition
                   THEN HasTrueCondition(o, conditionValue)
                   ELSE conditionType = s_phase /\ o.Status.Phase = conditionValue
    IN IF listed.err # NoError
       THEN ListFailed("Failed to list pods: %s", listed, checked)
       ELSE IF Len(items) = 0
       THEN NoneFound("No matching pods found", checked)
       ELSE Aggregate(cfg, CountTrue([i \in 1..Len(items) |-> Test(items[i])]),
                      Len(items),
                      "%d/%d pods meet condition %s", checked)

checkDeploymentCondition(recv, checked, conditionType, conditionValue, listed) ==
    LET cfg == recv.Config
        items == IF cfg.Name # "" THEN KeepIfFound(listed.Items, cfg.Name)
                 ELSE listed.Items
        Test(o) == conditionType = s_condition /\ HasTrueCondition(o, conditionValue)
    IN IF listed.err # NoError
       THEN ListFailed("Failed to list deployments: %s", listed, checked)
       ELSE IF Len(items) = 0
       THEN NoneFound("No matching deployments found", checked)
       ELSE Aggregate(cfg, CountTrue([i \in 1..Len(items) |-> Test(items[i])]),
                      Len(items),
                      "%d/%d deployments meet condition %s", checked)

\* no name filter, no per-object test, no use of Config.All
checkServiceCondition(recv, checked, conditionType, conditionValue, listed) ==
    IF listed.err # NoError
    THEN ListFailed("Failed to list services: %s", listed, checked)
    ELSE IF Len(listed.Items) = 0
    THEN NoneFound("No matching services found", checked)
    ELSE [result |-> WaitResult(TRUE, checked,
                                Msg("Found %d matching services", <<Len(listed.Items)>>)),
          err |-> NoError]

\* variant of checkDaemonSetCondition that counts a daemonset as soon as one
\* of its pods is ready
checkDaemonSetConditionAnyReady(recv, checked, conditionType, conditionValue, listed) ==
    LET cfg == recv.Config
        items == IF cfg.Name # "" THEN KeepIfFound(listed.Items, cfg.Name)
                 ELSE listed.Items
        Test(o) == /\ conditionType \in {s_condition, s_ready}
                   /\ o.Status.NumberReady > 0
    IN IF listed.err # NoError
       THEN ListFailed("Failed to list daemonsets: %s", listed, checked)
       ELSE IF Len(items) = 0
       THEN NoneFound("No matching daemonsets found", checked)
       ELSE Aggregate(cfg, CountTrue([i \in 1..Len(items) |-> Test(items[i])]),
                      Len(items),
                      "%d/%d daemonsets meet condition %s", checked)

checkDaemonSetCondition(recv, checked, conditionType, conditionValue, listed) ==
    LET cfg == recv.Config
        items == IF cfg.Name # "" THEN KeepIfFound(listed.Items, cfg.Name)
                 ELSE listed.Items
        Test(o) == /\ conditionType \in {s_condition, s_ready}
                   /\ o.Status.DesiredNumberScheduled = o.Status.NumberReady
    IN IF listed.err # NoError
       THEN ListFailed("Failed to list daemonsets: %s", listed, checked)
       ELSE IF Len(items) = 0
       THEN NoneFound("No matching daemonsets found", checked)
       ELSE Aggregate(cfg, CountTrue([i \in 1..Len(items) |-> Test(items[i])]),
                      Len(items),
                      "%d/%d daemonsets meet condition %s", checked)

checkStatefulSetCondition(recv, checked, conditionType, conditionValue, listed) ==
    LET cfg == recv.Config
        items == IF cfg.Name # "" THEN KeepIfFound(listed.Items, cfg.Name)
                 ELSE listed.Items
        Test(o) == /\ conditionType \in {s_condition, s_ready}
                   /\ o.Status.Replicas # <<>>
                   /\ o.Status.ReadyReplicas = o.Status.Replicas[1]
    IN IF listed.err # NoError
       THEN ListFailed("Failed to list statefulsets: %s", listed, checked)
       ELSE IF Len(items) = 0
       THEN NoneFound("No matching statefulsets found", checked)
       ELSE Aggregate(cfg, CountTrue([i \in 1..Len(items) |-> Test(items[i])]),
                      Len(items),
                      "%d/%d statefulsets meet condition %s", checked)

checkJobCondition(recv, checked, conditionType, conditionValue, listed) ==
    LET cfg == recv.Config
        items == IF cfg.Name # "" THEN KeepIfFound(listed.Items, cfg.Name)
                 ELSE listed.Items
        Test(o) == IF conditionType = s_condition
                   THEN HasTrueCondition(o, conditionValue)
                   ELSE conditionType = s_complete /\ o.Status.Succeeded > 0
    IN IF listed.err # NoError
       THEN ListFailed("Failed to list jobs: %s", listed, checked)
       ELSE IF Len(items) = 0
       THEN NoneFound("No matching jobs found", checked)
       ELSE Aggregate(cfg, CountTrue([i \in 1..Len(items) |-> Test(items[i])]),
                      Len(items),
                      "%d/%d jobs meet condition %s", checked)

checkCronJobCondition(recv, checked, conditionType, conditionValue, listed) ==
    LET cfg == recv.Config
        items == IF cfg.Name # "" THEN KeepIfFound(listed.Items, cfg.Name)
                 ELSE listed.Items
        Test(o) == conditionType \in {s_jsonpath, s_exist, s_exists}
    IN IF listed.err # NoError
       THEN ListFailed("Failed to list cronjobs: %s", listed, checked)
       ELSE IF Len(items) = 0
       THEN NoneFound("No matching cronjobs found", checked)
       ELSE Aggregate(cfg, CountTrue([i \in 1..Len(items) |-> Test(items[i])]),
                      Len(items),
                      "%d/%d cronjobs meet condition %s", checked)

checkIngressCondition(recv, checked, conditionType, conditionValue, listed) ==
    LET cfg == recv.Config
        items == IF cfg.Name # "" THEN KeepIfFound(listed.Items, cfg.Name)
                 ELSE listed.Items
        Test(o) == \/ conditionType \in {s_jsonpath, s_exist, s_exists}
                   \/ /\ conditionType = s_loadbalancer
                      /\ o.Status.LoadBalancerIngress > 0
    IN IF listed.err # NoError
       THEN ListFailed("Failed to list ingresses: %s", listed, checked)
       ELSE IF Len(items) = 0
       THEN NoneFound("No matching ingresses found", checked)
       ELSE Aggregate(cfg, CountTrue([i \in 1..Len(items) |-> Test(items[i])]),
                      Len(items),
                      "%d/%d ingresses meet condition %s", checked)

\* performs no list call; dynamic.NewForConfig may fail (clientOk = FALSE)
checkGenericCondition(recv, checked, clientOk) ==
    IF ~clientOk
    THEN [result |-> WaitResult(FALSE, checked,
                        Msg("Failed to create dynamic client: %s", <<"config">>)),
          err |-> Err("config", "invalid rest config", <<>>)]
    ELSE [result |-> WaitResult(FALSE, checked,
                        Msg("Generic condition checking for resource type '%s' not yet implemented",
                            <<recv.Config.Resource>>)),
          err |-> Err("notimplemented",
                      "generic condition checking not implemented for resource type: %s",
                      <<recv.Config.Resource>>)]

(***************************************************************************)
(* The registry and its resolution.                                        *)
(***************************************************************************)
RegistryEntries ==
    {<<s_node, "checkNodeCondition">>, <<s_nodes, "checkNodeCondition">>,
     <<s_pod, "checkPodCondition">>, <<s_pods, "checkPodCondition">>,
     <<s_deployment, "checkDeploymentCondition">>,
     <<s_deployments, "checkDeploymentCondition">>,
     <<s_service, "checkServiceCondition">>,
     <<s_services, "checkServiceCondition">>,
     <<s_daemonset, "checkDaemonSetCondition">>,
     <<s_daemonsets, "checkDaemonSetCondition">>,
     <<s_statefulset, "checkStatefulSetCondition">>,
     <<s_statefulsets, "checkStatefulSetCondition">>,
     <<s_job, "checkJobCondition">>, <<s_jobs, "checkJobCondition">>,
     <<s_cronjob, "checkCronJobCondition">>,
     <<s_cronjobs, "checkCronJobCondition">>,
     <<s_ingress, "checkIngressCondition">>}

\* the package-level map before its first use
EmptyRegistry == [k \in {} |-> [fn |-> "", recv |-> <<>>]]

\* ConditionChecker.initResourceCheckers: every entry is a method value
\* bound to the checker c that runs the initialisation
initResourceCheckers(c) ==
    [k \in {e[1] : e \in RegistryEntries} |->
        [fn |-> (CHOOSE e \in RegistryEntries : e[1] = k)[2], recv |-> c]]

\* the lookup of CheckCondition: exact key, then the key without a final
\* "s", then the generic fallback called on the checker itself
Resolve(registry, c) ==
    LET resourceType == ToLower(c.Config.Resource)
        singularType == TrimSuffixS(resourceType)
    IN IF resourceType \in DOMAIN registry
       THEN registry[resourceType]
       ELSE IF HasSuffixS(resourceType) /\ singularType \in DOMAIN registry
       THEN registry[singularType]
       ELSE [fn |-> "checkGenericCondition", recv |-> c]

\* the call checkFunc(ctx, conditionType, conditionValue) once the list
\* call of the strategy has returned
RunStrategy(call, listed) ==
    CASE call.fn = "checkNodeCondition" ->
           checkNodeCondition(call.recv, call.checked, call.conditionType, call.conditionValue, listed)
      [] call.fn = "checkPodCondition" ->
           checkPodCondition(call.recv, call.checked, call.conditionType, call.conditionValue, listed)
      [] call.fn = "checkDeploymentCondition" ->
           checkDeploymentCondition(call.recv, call.checked, call.conditionType, call.conditionValue, listed)
      [] call.fn = "checkServiceCondition" ->
           checkServiceCondition(call.recv, call.checked, call.conditionType, call.conditionValue, listed)
      [] call.fn = "checkDaemonSetCondition" ->
           checkDaemonSetCondition(call.recv, call.checked, call.conditionType, call.conditionValue, listed)
      [] call.fn = "checkStatefulSetCondition" ->
           checkStatefulSetCondition(call.recv, call.checked, call.conditionType, call.conditionValue, listed)
      [] call.fn = "checkJobCondition" ->
           checkJobCondition(call.recv, call.checked, call.conditionType, call.conditionValue, listed)
      [] call.fn = "checkCronJobCondition" ->
           checkCronJobCondition(call.recv, call.checked, call.conditionType, call.conditionValue, listed)
      [] call.fn = "checkIngressCondition" ->
           checkIngressCondition(call.recv, call.checked, call.conditionType, call.conditionValue, listed)

\* the strategy call CheckCondition makes at clock value t
StrategyCall(c, registry, t) ==
    LET parsed == parseCondition(c.Config.Condition)
        strategy == Resolve(registry, c)
    IN [fn |-> strategy.fn, recv |-> strategy.recv, checked |-> t,
        conditionType |-> parsed.conditionType,
        conditionValue |-> parsed.conditionValue,
        listArgs |-> <<strategy.recv.Client, strategy.recv.Config.Namespace,
                       strategy.recv.Config.Labels,
                       strategy.recv.Config.FieldSelector>>]

\* CheckCondition reaches a list call: the condition parses and the kind
\* resolves to a registered strategy
IssuesList(c, registry) ==
    /\ parseCondition(c.Config.Condition).err = NoError
    /\ Resolve(registry, c).fn # "checkGenericCondition"

\* ConditionChecker.CheckCondition on an initialised registry, started at
\* clock value t; listed is the outcome of the list call if one is made,
\* clientOk that of dynamic.NewForConfig if the generic fallback runs
CheckCondition(c, registry, t, listed, clientOk) ==
    LET parsed == parseCondition(c.Config.Condition)
        strategy == Resolve(registry, c)
    IN IF parsed.err # NoError
       THEN [result |-> WaitResult(FALSE, t,
                           Msg("Invalid condition format: %s", <<parsed.err>>)),
             err |-> parsed.err]
       ELSE IF strategy.fn = "checkGenericCondition"
       THEN checkGenericCondition(strategy.recv, t, clientOk)
       ELSE RunStrategy(StrategyCall(c, registry, t), listed)

(***************************************************************************)
(* Inputs: the WaitConfig values of the modelled invocations.              *)
(***************************************************************************)
\* one name for every registered strategy and an unregistered kind
Resources ==
    {s_nodes, s_pods, s_deployments, s_services, s_daemonsets,
     s_statefulsets, s_jobs, s_cronjobs, s_ingress, s_widgets}

\* further spellings of a kind, for single evaluations
MoreResources ==
    {s_node, s_pod, s_Pods, s_deployment, s_service, s_daemonset,
     s_statefulset, s_job, s_cronjob, s_ingresses}

Conditions ==
    {c_conditionReady, c_phaseRunning, c_readyTrue, c_completeTrue,
     c_existsTrue, c_loadbalancerTrue, c_malformed}

\* further condition expressions, for single evaluations
MoreConditions ==
    {c_jsonpathEq3, c_spacedUpper, c_conditionAvailable,
     c_jsonpathReadyReplicasEq1, c_fooBar}

ConfigNames == {"", "my-app"}

\* <<Timeout, CheckInterval>> in clock units
ShortTiming == <<2, 1>>
Timings == {<<10, 3>>, <<4, 2>>, <<3, 3>>, <<2, 3>>}

WaitConfig(resource, name, condition, all, timing) ==
    [Resource |-> resource, Name |-> name, Namespace |-> "default",
     Labels |-> "", FieldSelector |-> "", Condition |-> condition,
     All |-> all, Timeout |-> timing[1], CheckInterval |-> timing[2]]

\* the configurations of the modelled waits
WaitConfigs ==
    {WaitConfig(r, n, c, a, ShortTiming) :
        r \in Resources, n \in ConfigNames, c \in Conditions, a \in BOOLEAN}
    \cup
    {WaitConfig(r, "", c_conditionReady, a, t) :
        r \in {s_pods, s_services}, a \in BOOLEAN, t \in Timings}

\* the configurations of the modelled single evaluations
EvalConfigs ==
    {WaitConfig(r, n, c, a, ShortTiming) :
        r \in Resources \cup MoreResources, n \in ConfigNames,
        c \in Conditions \cup MoreConditions, a \in BOOLEAN}

(***************************************************************************)
(* State.                                                                  *)
(***************************************************************************)
VARIABLES
    checker,                    \* the ConditionChecker: [Client, Config]
    resourceConditionCheckers,  \* the package-level registry map
    pc,                         \* position of WaitForCondition
    now,                        \* the clock
    startTime,                  \* clock value at entry to WaitForCondition
    deadline,                   \* local `deadline` of WaitForCondition
    nextTick,                   \* clock value of the ticker's next tick
    tickPending,                \* a tick is buffered in ticker.C
    ctxErr,                     \* ctx.Err(): NoError until ctx is done
    call,                       \* the strategy call blocked in its list call
    listElapsed,                \* time the pending list call has taken
    ret,                        \* what WaitForCondition returned
    lastResult,                 \* <<pair>> returned by the latest CheckCondition
    listCalls,                  \* number of list calls issued
    evalTimes,                  \* clock values at which CheckCondition started
    blocked,                    \* some list call took time to return
    lastListErr,                \* <<err>> of the latest list call
    input,                      \* <<list outcome>> a single evaluation is applied to
    tfstate,                    \* <<stored state>> of the wait declaration, <<>> if none
    checkOnce,                  \* the check_once attribute of the declaration
    diags,                      \* diagnostics of the latest lifecycle operation
    lastOp,                     \* the latest lifecycle operation that returned
    reads,                      \* number of Read operations performed
    parsed,                     \* <<what parseCondition returned>>
    auth,                       \* credential attributes of resource and provider
    kubeClientConfig,           \* <<ClientConfig>> that Create hands to NewClient
    created,                    \* the ids Create computed, in order of creation
    procs,                      \* goroutines in CheckCondition: position of each
    regWrites                   \* number of assignments to the registry map

vars == <<checker, resourceConditionCheckers, pc, now, startTime, deadline,
          nextTick, tickPending, ctxErr, call, listElapsed, ret, lastResult,
          listCalls, evalTimes, blocked, lastListErr, input, tfstate,
          checkOnce, diags, lastOp, reads, parsed, auth, kubeClientConfig,
          created, procs, regWrites>>

\* the state used by the specifications of single operations
auxVars == <<auth, kubeClientConfig, created, procs, regWrites>>

\* the state of the lifecycle adapter
adapterVars == <<tfstate, checkOnce, diags, lastOp, reads>>

\* how far past its deadline the model follows an invocation
MaxOverrun == 1

NoCall == [fn |-> "", recv |-> <<>>, checked |-> 0,
           conditionType |-> <<>>, conditionValue |-> <<>>, listArgs |-> <<>>]

NoReturn == [result |-> WaitResult(FALSE, 0, Msg("", <<>>)), err |-> NoError]

Terminal == {"Satisfied", "TimedOut", "Cancelled", "Failed"}

\* the state of a process that has not called WaitForCondition yet
FreshWait ==
    /\ resourceConditionCheckers = EmptyRegistry
    /\ now = 0
    /\ startTime = 0
    /\ deadline = 0
    /\ nextTick = 0
    /\ tickPending = FALSE
    /\ ctxErr = NoError
    /\ call = NoCall
    /\ listElapsed = 0
    /\ ret = NoReturn
    /\ lastResult = <<>>
    /\ listCalls = 0
    /\ evalTimes = <<>>
    /\ blocked = FALSE
    /\ lastListErr = <<>>
    /\ tfstate = <<>>
    /\ diags = <<>>
    /\ lastOp = "none"
    /\ reads = 0
    /\ parsed = <<>>

\* the same, for the specifications that use no state of their own
Fresh ==
    /\ FreshWait
    /\ auth = <<>>
    /\ kubeClientConfig = <<>>
    /\ created = <<>>
    /\ procs = <<>>
    /\ regWrites = 0

Checkers == {[Client |-> "client", Config |-> cfg] : cfg \in WaitConfigs}

Init ==
    /\ checker \in Checkers
    /\ pc = "Idle"
    /\ input = <<>>
    /\ checkOnce = FALSE
    /\ Fresh

(***************************************************************************)
(* The environment: the caller's context and the clock.                    *)
(***************************************************************************)
ContextErrors == {Err("context.Canceled", "context canceled", <<>>),
                  Err("context.DeadlineExceeded", "context deadline exceeded", <<>>)}

\* the caller cancels ctx, or the deadline of ctx passes
Cancel ==
    /\ pc \in {"Idle", "select", "listing"}
    /\ ctxErr = NoError
    /\ \E e \in ContextErrors : ctxErr' = e
    /\ UNCHANGED <<auxVars, adapterVars, parsed, input, checker, resourceConditionCheckers, pc, now, startTime,
                   deadline, nextTick, tickPending, call, listElapsed, ret,
                   lastResult, listCalls, evalTimes, blocked, lastListErr>>

\* the cases of the select statement that can proceed
CancelReady == ctxErr # NoError
TimeoutReady == now >= deadline
TickReady == tickPending

\* The clock advances by one unit while the driver is blocked: in the
\* select with no case ready, or in a list call.  The ticker buffers one
\* tick in its channel and drops a tick that finds the buffer full.
Tick ==
    /\ now < deadline + MaxOverrun
    /\ \/ pc = "select" /\ ~CancelReady /\ ~TimeoutReady /\ ~TickReady
       \/ pc = "listing" /\ listElapsed < MaxListDelay
    /\ now' = now + 1
    /\ listElapsed' = IF pc = "listing" THEN listElapsed + 1 ELSE listElapsed
    /\ blocked' = (blocked \/ pc = "listing")
    /\ IF now + 1 = nextTick
       THEN /\ tickPending' = TRUE
            /\ nextTick' = nextTick + checker.Config.CheckInterval
       ELSE UNCHANGED <<tickPending, nextTick>>
    /\ UNCHANGED <<auxVars, adapterVars, parsed, input, checker, resourceConditionCheckers, pc, startTime, deadline,
                   ctxErr, call, ret, lastResult, listCalls, evalTimes, lastListErr>>

(***************************************************************************)
(* ConditionChecker.WaitForCondition                                       *)
(***************************************************************************)
\* deadline := time.Now().Add(Timeout); ticker := time.NewTicker(CheckInterval)
Enter ==
    /\ pc = "Idle"
    /\ startTime' = now
    /\ deadline' = now + checker.Config.Timeout
    /\ nextTick' = now + checker.Config.CheckInterval
    /\ tickPending' = FALSE
    /\ pc' = "select"
    /\ UNCHANGED <<auxVars, adapterVars, parsed, input, checker, resourceConditionCheckers, now, ctxErr, call,
                   listElapsed, ret, lastResult, listCalls, evalTimes, blocked,
                   lastListErr>>

\* variant of cancelledReturn that reports the cancellation without an error
cancelledReturnNilErr(ctxError, t) ==
    [result |-> WaitResult(FALSE, t, Msg("Context cancelled", <<>>)),
     err |-> NoError]

\* lines 55-59: the pair returned when ctx is done
cancelledReturn(ctxError, t) ==
    [result |-> WaitResult(FALSE, t, Msg("Context cancelled", <<>>)),
     err |-> ctxError]

\* variant of timeoutReturn whose error names the resource kind instead of
\* the condition expression
timeoutReturnNamesResource(cfg, t) ==
    [result |-> WaitResult(FALSE, t, Msg("Timeout after %v", <<cfg.Timeout>>)),
     err |-> Err("timeout", "timeout waiting for condition %s", <<cfg.Resource>>)]

\* lines 62-66: the pair returned when the deadline timer fires
timeoutReturn(cfg, t) ==
    [result |-> WaitResult(FALSE, t, Msg("Timeout after %v", <<cfg.Timeout>>)),
     err |-> Err("timeout", "timeout waiting for condition %s", <<cfg.Condition>>)]

\* case <-ctx.Done()
SelectCancelled ==
    /\ pc = "select"
    /\ CancelReady
    /\ ret' = cancelledReturn(ctxErr, now)
    /\ pc' = "Cancelled"
    /\ UNCHANGED <<auxVars, adapterVars, parsed, input, checker, resourceConditionCheckers, now, startTime, deadline,
                   nextTick, tickPending, ctxErr, call, listElapsed, lastResult,
                   listCalls, evalTimes, blocked, lastListErr>>

\* case <-time.After(time.Until(deadline))
SelectTimeout ==
    /\ pc = "select"
    /\ TimeoutReady
    /\ ret' = timeoutReturn(checker.Config, now)
    /\ pc' = "TimedOut"
    /\ UNCHANGED <<auxVars, adapterVars, parsed, input, checker, resourceConditionCheckers, now, startTime, deadline,
                   nextTick, tickPending, ctxErr, call, listElapsed, lastResult,
                   listCalls, evalTimes, blocked, lastListErr>>

\* variant of AfterCheck that looks at ConditionMet only and polls on after
\* an error
AfterCheckIgnoresErr(pair) ==
    /\ lastResult' = <<pair>>
    /\ IF pair.result.ConditionMet
       THEN ret' = pair /\ pc' = "Satisfied"
       ELSE ret' = ret /\ pc' = "select"

\* variant of AfterCheck that polls on after a transport error
AfterCheckRetriesTransport(pair) ==
    /\ lastResult' = <<pair>>
    /\ IF pair.err # NoError /\ pair.err.kind # "transport"
       THEN ret' = pair /\ pc' = "Failed"
       ELSE IF pair.err = NoError /\ pair.result.ConditionMet
       THEN ret' = pair /\ pc' = "Satisfied"
       ELSE ret' = ret /\ pc' = "select"

\* lines 70-79: what the driver does with the pair CheckCondition returned
AfterCheck(pair) ==
    /\ lastResult' = <<pair>>
    /\ IF pair.err # NoError
       THEN ret' = pair /\ pc' = "Failed"
       ELSE IF pair.result.ConditionMet
       THEN ret' = pair /\ pc' = "Satisfied"
       ELSE ret' = ret /\ pc' = "select"

\* case <-ticker.C, and CheckCondition up to the list call of the strategy:
\* lazy initialisation of the registry, parseCondition, resolution.  A
\* malformed condition and the generic fallback return without a list call.
SelectTick ==
    /\ pc = "select"
    /\ TickReady
    /\ tickPending' = FALSE
    /\ evalTimes' = Append(evalTimes, now)
    /\ resourceConditionCheckers' =
          IF Cardinality(DOMAIN resourceConditionCheckers) = 0
          THEN initResourceCheckers(checker)
          ELSE resourceConditionCheckers
    /\ IF IssuesList(checker, resourceConditionCheckers')
       THEN /\ call' = StrategyCall(checker, resourceConditionCheckers', now)
            /\ listCalls' = listCalls + 1
            /\ pc' = "listing"
            /\ UNCHANGED <<ret, lastResult>>
       ELSE /\ \E clientOk \in BOOLEAN :
                   AfterCheck(CheckCondition(checker, resourceConditionCheckers',
                                             now, [err |-> NoError, Items |-> <<>>],
                                             clientOk))
            /\ UNCHANGED <<call, listCalls>>
    /\ listElapsed' = 0
    /\ UNCHANGED <<auxVars, adapterVars, parsed, input, checker, now, startTime, deadline, nextTick, ctxErr, blocked,
                   lastListErr>>

\* the list call returns; the strategy and CheckCondition return; lines 70-79
ListReturns ==
    /\ pc = "listing"
    /\ \E outcome \in ListOutcomes :
          /\ AfterCheck(RunStrategy(call, outcome))
          /\ lastListErr' = <<outcome.err>>
    /\ call' = NoCall
    /\ UNCHANGED <<auxVars, adapterVars, parsed, input, checker, resourceConditionCheckers, now, startTime, deadline,
                   nextTick, tickPending, ctxErr, listElapsed, listCalls,
                   evalTimes, blocked>>

Next ==
    \/ Enter
    \/ Cancel
    \/ Tick
    \/ SelectCancelled
    \/ SelectTimeout
    \/ SelectTick
    \/ ListReturns

Spec == Init /\ [][Next]_vars

(***************************************************************************)
(* A single evaluation: CheckCondition applied once to a WaitConfig and a  *)
(* list outcome drawn at the start.                                        *)
(***************************************************************************)
EvalInit ==
    /\ checker \in {[Client |-> "client", Config |-> cfg] : cfg \in EvalConfigs}
    /\ pc = "eval"
    /\ input \in {<<outcome>> : outcome \in ListOutcomes}
    /\ checkOnce = FALSE
    /\ Fresh

\* one call of CheckCondition, the list call of its strategy included
Evaluate ==
    /\ pc = "eval"
    /\ resourceConditionCheckers' =
          IF Cardinality(DOMAIN resourceConditionCheckers) = 0
          THEN initResourceCheckers(checker)
          ELSE resourceConditionCheckers
    /\ \E clientOk \in BOOLEAN :
          lastResult' = <<CheckCondition(checker, resourceConditionCheckers',
                                         now, input[1], clientOk)>>
    /\ evalTimes' = Append(evalTimes, now)
    /\ IF IssuesList(checker, resourceConditionCheckers')
       THEN listCalls' = listCalls + 1 /\ lastListErr' = <<input[1].err>>
       ELSE UNCHANGED <<listCalls, lastListErr>>
    /\ pc' = "evaluated"
    /\ UNCHANGED <<auxVars, adapterVars, parsed, input, checker, now, startTime, deadline, nextTick,
                   tickPending, ctxErr, call, listElapsed, ret, blocked>>

EvalNext == Evaluate

SpecEval == EvalInit /\ [][EvalNext]_vars

(***************************************************************************)
(* The lifecycle adapter: BaseWaitResource, which every resource type      *)
(* delegates to.  Create runs WaitForCondition between CreateBegin and     *)
(* CreateReturn.                                                           *)
(***************************************************************************)
\* how many Read operations the model follows
MaxReads == 2

\* the declarations of the modelled lifecycles: every resource type
LifecycleConfigs ==
    {WaitConfig(r, "", c_conditionReady, FALSE, ShortTiming) : r \in Resources}

Diagnostic(summary, detail) == [summary |-> summary, detail |-> detail]

\* result.LastChecked.Format(time.RFC3339): the instant to the second
FormatRFC3339(t) == [layout |-> "2006-01-02T15:04:05Z07:00", seconds |-> t]

\* fmt.Sprintf("%s-wait-%d", r.resourceType, time.Now().Unix()): t is the
\* clock in seconds
WaitID(resourceType, t) == Msg("%s-wait-%d", <<resourceType, t>>)

\* the model written by resp.State.Set at the end of Create
CreatedState(cfg, once, result, t) ==
    [Config |-> cfg,
     CheckOnce |-> once,
     ID |-> WaitID(cfg.Resource, t),
     ConditionMet |-> result.ConditionMet,
     LastChecked |-> FormatRFC3339(result.LastChecked),
     Message |-> result.Message]

LifecycleInit ==
    /\ checker \in {[Client |-> "none", Config |-> cfg] : cfg \in LifecycleConfigs}
    /\ checkOnce \in BOOLEAN
    /\ pc = "planned"
    /\ input = <<>>
    /\ Fresh

\* Create up to the call of WaitForCondition: kubernetes.NewClient fails, or
\* the ConditionChecker is built
CreateBegin ==
    /\ pc = "planned"
    /\ \E clientOk \in BOOLEAN :
          IF clientOk
          THEN /\ checker' = [checker EXCEPT !.Client = "client"]
               /\ pc' = "Idle"
               /\ UNCHANGED <<diags, lastOp>>
          ELSE /\ diags' = <<Diagnostic("Error creating Kubernetes client",
                                        Msg("failed to create Kubernetes clientset: %w",
                                            <<>>))>>
               /\ lastOp' = "Create"
               /\ pc' = "createFailed"
               /\ UNCHANGED checker
    /\ UNCHANGED <<auxVars, tfstate, checkOnce, reads, parsed, input,
                   resourceConditionCheckers, now, startTime, deadline,
                   nextTick, tickPending, ctxErr, call, listElapsed, ret,
                   lastResult, listCalls, evalTimes, blocked, lastListErr>>

\* variant of CreateReturn that stores the result of a failed wait as well
CreateReturnStoresFailure ==
    /\ pc \in Terminal
    /\ lastOp = "none"
    /\ tfstate' = <<CreatedState(checker.Config, checkOnce, ret.result, now)>>
    /\ IF ret.err # NoError
       THEN /\ diags' = <<Diagnostic("Wait operation failed", ret.err.msg)>>
            /\ pc' = "createFailed"
       ELSE /\ pc' = "applied"
            /\ UNCHANGED diags
    /\ lastOp' = "Create"
    /\ UNCHANGED <<auxVars, checkOnce, reads, parsed, input, checker,
                   resourceConditionCheckers, now, startTime, deadline,
                   nextTick, tickPending, ctxErr, call, listElapsed, ret,
                   lastResult, listCalls, evalTimes, blocked, lastListErr>>

\* Create after WaitForCondition returned
CreateReturn ==
    /\ pc \in Terminal
    /\ lastOp = "none"
    /\ IF ret.err # NoError
       THEN /\ diags' = <<Diagnostic("Wait operation failed", ret.err.msg)>>
            /\ pc' = "createFailed"
            /\ UNCHANGED tfstate
       ELSE /\ tfstate' = <<CreatedState(checker.Config, checkOnce, ret.result, now)>>
            /\ pc' = "applied"
            /\ UNCHANGED diags
    /\ lastOp' = "Create"
    /\ UNCHANGED <<auxVars, checkOnce, reads, parsed, input, checker,
                   resourceConditionCheckers, now, startTime, deadline,
                   nextTick, tickPending, ctxErr, call, listElapsed, ret,
                   lastResult, listCalls, evalTimes, blocked, lastListErr>>

\* variant of Read that does not look at check_once and lists again
ReadIgnoresCheckOnce ==
    /\ pc = "applied"
    /\ reads < MaxReads
    /\ listCalls' = listCalls + 1
    /\ tfstate' = <<[tfstate[1] EXCEPT !.LastChecked = FormatRFC3339(now + 1)]>>
    /\ diags' = <<>>
    /\ lastOp' = "Read"
    /\ reads' = reads + 1
    /\ UNCHANGED <<auxVars, checkOnce, parsed, input, checker, pc,
                   resourceConditionCheckers, now, startTime, deadline,
                   nextTick, tickPending, ctxErr, call, listElapsed, ret,
                   lastResult, evalTimes, blocked, lastListErr>>

\* Read: the model is loaded from the stored state, its resource field is
\* set to the resource type, and it is stored again.  The branch taken
\* without check_once holds only a comment where the re-check would be.
Read ==
    /\ pc = "applied"
    /\ reads < MaxReads
    /\ LET d == [tfstate[1] EXCEPT !.Config.Resource = checker.Config.Resource]
       IN IF d.CheckOnce /\ d.ConditionMet
          THEN tfstate' = <<d>>
          ELSE tfstate' = <<d>>
    /\ listCalls' = listCalls
    /\ diags' = <<>>
    /\ lastOp' = "Read"
    /\ reads' = reads + 1
    /\ UNCHANGED <<auxVars, checkOnce, parsed, input, checker, pc,
                   resourceConditionCheckers, now, startTime, deadline,
                   nextTick, tickPending, ctxErr, call, listElapsed, ret,
                   lastResult, evalTimes, blocked, lastListErr>>

\* variant of Update that reports no error
UpdateReportsNothing ==
    /\ pc = "applied"
    /\ diags' = <<>>
    /\ lastOp' = "Update"
    /\ UNCHANGED <<auxVars, tfstate, checkOnce, reads, parsed, input, checker, pc,
                   resourceConditionCheckers, now, startTime, deadline,
                   nextTick, tickPending, ctxErr, call, listElapsed, ret,
                   lastResult, listCalls, evalTimes, blocked, lastListErr>>

\* Update: an error diagnostic and nothing else; the response keeps the
\* prior state
Update ==
    /\ pc = "applied"
    /\ diags' = <<Diagnostic("Update not supported",
                             Msg("Wait resources cannot be updated. Any configuration change requires replacement.",
                                 <<>>))>>
    /\ lastOp' = "Update"
    /\ UNCHANGED <<auxVars, tfstate, checkOnce, reads, parsed, input, checker, pc,
                   resourceConditionCheckers, now, startTime, deadline,
                   nextTick, tickPending, ctxErr, call, listElapsed, ret,
                   lastResult, listCalls, evalTimes, blocked, lastListErr>>

\* Delete does nothing; returning without an error, it lets the stored
\* state be dropped
Delete ==
    /\ pc = "applied"
    /\ tfstate' = <<>>
    /\ diags' = <<>>
    /\ lastOp' = "Delete"
    /\ pc' = "destroyed"
    /\ UNCHANGED <<auxVars, checkOnce, reads, parsed, input, checker,
                   resourceConditionCheckers, now, startTime, deadline,
                   nextTick, tickPending, ctxErr, call, listElapsed, ret,
                   lastResult, listCalls, evalTimes, blocked, lastListErr>>

LifecycleNext ==
    \/ CreateBegin
    \/ Enter
    \/ Cancel
    \/ Tick
    \/ SelectCancelled
    \/ SelectTimeout
    \/ SelectTick
    \/ ListReturns
    \/ CreateReturn
    \/ Read
    \/ Update
    \/ Delete

SpecLifecycle == LifecycleInit /\ [][LifecycleNext]_vars

(***************************************************************************)
(* parseCondition applied once to a condition expression drawn at the      *)
(* start.                                                                  *)
(***************************************************************************)
\* longest condition expression drawn from ParseAlphabet
MaxLen == 4

ParseAlphabet == {"a", "B", " ", "="}

\* the condition expressions parsed: every text over ParseAlphabet up to
\* MaxLen characters, and expressions of the documentation
ParseInputs ==
    UNION {[1..n -> ParseAlphabet] : n \in 0..MaxLen}
    \cup {c_conditionReady, c_jsonpathReadyReplicas, c_jsonpathEq3,
          c_spacedUpper, c_malformed}

ParseInit ==
    /\ checker \in {[Client |-> "client",
                      Config |-> WaitConfig(s_pods, "", c, FALSE, ShortTiming)] :
                     c \in ParseInputs}
    /\ checkOnce = FALSE
    /\ pc = "parse"
    /\ input = <<>>
    /\ Fresh

\* one call of c.parseCondition()
Parse ==
    /\ pc = "parse"
    /\ parsed' = <<parseCondition(checker.Config.Condition)>>
    /\ pc' = "parsed"
    /\ UNCHANGED <<auxVars, adapterVars, input, checker, resourceConditionCheckers,
                   now, startTime, deadline, nextTick, tickPending, ctxErr,
                   call, listElapsed, ret, lastResult, listCalls, evalTimes,
                   blocked, lastListErr>>

ParseNext == Parse

SpecParse == ParseInit /\ [][ParseNext]_vars

(***************************************************************************)
(* The credential source of Create: the ClientConfig it builds from the    *)
(* attributes of the resource and of the provider, and the source          *)
(* NewClient loads from it.                                                *)
(***************************************************************************)
\* r.providerConfig: <<>> is nil; Configure stores "auto" for an omitted type
ProviderConfigs ==
    {<<>>}
    \cup {<<[KubeConfigType |-> t, KubeConfig |-> k, Context |-> c]>> :
             t \in {"raw", "file", "auto"},
             k \in {"", "provider-config"},
             c \in {"", "provider-context"}}

\* the attributes kube_config_type, kube_config and context of the resource
\* together with the provider configuration
AuthInputs ==
    {[kubeConfigTypeValue |-> t, kubeConfigValue |-> k, contextValue |-> c,
      providerConfig |-> p] :
        t \in {"", "raw", "file", "auto", "provider"},
        k \in {"", "resource-config"},
        c \in {"", "resource-context"},
        p \in ProviderConfigs}

ClientConfig(kubeConfig, kubeConfigPath, context) ==
    [KubeConfig |-> kubeConfig, KubeConfigPath |-> kubeConfigPath,
     Context |-> context]

\* the block of Create that fills kubeClientConfig
BuildClientConfig(a) ==
    LET initial == ClientConfig(a.kubeConfigValue, "", a.contextValue)
        type == IF a.kubeConfigTypeValue = "" THEN "provider"
                ELSE a.kubeConfigTypeValue
    IN IF type = "raw"
       THEN [initial EXCEPT !.KubeConfig = a.kubeConfigValue,
                            !.KubeConfigPath = ""]
       ELSE IF type = "file"
       THEN [initial EXCEPT !.KubeConfig = "",
                            !.KubeConfigPath = a.kubeConfigValue]
       ELSE IF type = "auto"
       THEN [initial EXCEPT !.KubeConfig = "", !.KubeConfigPath = ""]
       ELSE IF a.providerConfig # <<>>
       THEN LET p == a.providerConfig[1]
            IN IF p.KubeConfigType = "raw"
               THEN [initial EXCEPT !.KubeConfig = p.KubeConfig,
                                    !.Context = p.Context]
               ELSE IF p.KubeConfigType = "file"
               THEN [initial EXCEPT !.KubeConfigPath = p.KubeConfig,
                                    !.Context = p.Context]
               ELSE [initial EXCEPT !.KubeConfig = "", !.KubeConfigPath = "",
                                    !.Context = p.Context]
       ELSE initial

\* what NewClient loads the rest.Config from: raw content if there is any,
\* else the file at the given path, else in-cluster and then ~/.kube/config
ClientSource(config) ==
    IF config.KubeConfig # ""
    THEN [from |-> "raw", value |-> config.KubeConfig]
    ELSE IF config.KubeConfigPath # ""
    THEN [from |-> "file", value |-> config.KubeConfigPath]
    ELSE [from |-> "auto", value |-> ""]

CredInit ==
    /\ checker \in {[Client |-> "none",
                      Config |-> WaitConfig(s_pods, "", c_conditionReady, FALSE,
                                            ShortTiming)]}
    /\ checkOnce = FALSE
    /\ pc = "planned"
    /\ input = <<>>
    /\ FreshWait
    /\ auth \in {<<a>> : a \in AuthInputs}
    /\ kubeClientConfig = <<>>
    /\ created = <<>>
    /\ procs = <<>>
    /\ regWrites = 0

\* Create up to the call of NewClient
SelectCredentials ==
    /\ pc = "planned"
    /\ kubeClientConfig' = <<BuildClientConfig(auth[1])>>
    /\ pc' = "configured"
    /\ UNCHANGED <<adapterVars, parsed, input, checker,
                   resourceConditionCheckers, now, startTime, deadline,
                   nextTick, tickPending, ctxErr, call, listElapsed, ret,
                   lastResult, listCalls, evalTimes, blocked, lastListErr,
                   auth, created, procs, regWrites>>

CredNext == SelectCredentials

SpecCred == CredInit /\ [][CredNext]_vars

(***************************************************************************)
(* The ids of several declarations: the provider creates declarations one  *)
(* after another or at the same time, each Create computing its id when    *)
(* its wait has succeeded.                                                 *)
(***************************************************************************)
\* how many declarations are created, and for how many seconds
MaxDecls == 3
MaxSeconds == 2

\* the resource types of the created declarations
IdResources == {s_pods, s_services, s_nodes}

IdInit ==
    /\ checker \in {[Client |-> "none",
                      Config |-> WaitConfig(s_pods, "", c_conditionReady, FALSE,
                                            ShortTiming)]}
    /\ checkOnce = FALSE
    /\ pc = "creating"
    /\ input = <<>>
    /\ FreshWait
    /\ auth = <<>>
    /\ kubeClientConfig = <<>>
    /\ created = <<>>
    /\ procs = <<>>
    /\ regWrites = 0

\* a second passes
SecondPasses ==
    /\ now < MaxSeconds
    /\ now' = now + 1
    /\ UNCHANGED <<auxVars, adapterVars, parsed, input, checker,
                   resourceConditionCheckers, pc, startTime, deadline,
                   nextTick, tickPending, ctxErr, call, listElapsed, ret,
                   lastResult, listCalls, evalTimes, blocked, lastListErr>>

\* the Create of one more declaration, whose wait has succeeded, computes
\* the id of the declaration
CreateComputesID ==
    /\ Len(created) < MaxDecls
    /\ \E r \in IdResources : created' = Append(created, WaitID(r, now))
    /\ UNCHANGED <<auth, kubeClientConfig, procs, regWrites, adapterVars,
                   parsed, input, checker, resourceConditionCheckers, pc, now,
                   startTime, deadline, nextTick, tickPending, ctxErr, call,
                   listElapsed, ret, lastResult, listCalls, evalTimes,
                   blocked, lastListErr>>

IdNext ==
    \/ SecondPasses
    \/ CreateComputesID

SpecIds == IdInit /\ [][IdNext]_vars

(***************************************************************************)
(* Several invocations in one provider process: each goroutine runs        *)
(* CheckCondition for its own ConditionChecker, and all of them share the  *)
(* package-level registry, which is read and written without a lock.       *)
(***************************************************************************)
Goroutines == {1, 2}

\* the WaitConfig values of the invocations
ProcConfigs ==
    {WaitConfig(s_pods, n, c_conditionReady, a, ShortTiming) :
        n \in ConfigNames, a \in BOOLEAN}

\* what the list calls of the invocations return: a failure, or at most
\* one object
ProcOutcomes ==
    {[err |-> NoError, Items |-> <<>>]}
    \cup {[err |-> NoError, Items |-> <<o>>] : o \in Objects}
    \cup {[err |-> e, Items |-> <<>>] : e \in ListErrors}

\* a goroutine about to call CheckCondition for checker c
Goroutine(c) ==
    [pc |-> "start", checker |-> c, call |-> NoCall, listed |-> <<>>,
     result |-> <<>>]

ProcInit ==
    /\ checker \in {[Client |-> "none",
                      Config |-> WaitConfig(s_pods, "", c_conditionReady, FALSE,
                                            ShortTiming)]}
    /\ checkOnce = FALSE
    /\ pc = "process"
    /\ input = <<>>
    /\ FreshWait
    /\ auth = <<>>
    /\ kubeClientConfig = <<>>
    /\ created = <<>>
    /\ regWrites = 0
    /\ \E c1 \in ProcConfigs, c2 \in ProcConfigs :
          procs = <<Goroutine([Client |-> "client-1", Config |-> c1]),
                    Goroutine([Client |-> "client-2", Config |-> c2])>>

\* what no step of a goroutine changes
ProcFrame ==
    UNCHANGED <<auth, kubeClientConfig, created, adapterVars, parsed, input,
                checker, pc, now, startTime, deadline, nextTick, tickPending,
                ctxErr, call, listElapsed, ret, lastResult, listCalls,
                evalTimes, blocked, lastListErr>>

\* if len(resourceConditionCheckers) == 0
CheckLen(g) ==
    /\ procs[g].pc = "start"
    /\ procs' = [procs EXCEPT ![g].pc =
                    IF Cardinality(DOMAIN resourceConditionCheckers) = 0
                    THEN "init" ELSE "lookup"]
    /\ UNCHANGED <<resourceConditionCheckers, regWrites>>
    /\ ProcFrame

\* c.initResourceCheckers(): the map of method values bound to c is
\* assigned to the package-level variable
InitRegistry(g) ==
    /\ procs[g].pc = "init"
    /\ resourceConditionCheckers' = initResourceCheckers(procs[g].checker)
    /\ regWrites' = regWrites + 1
    /\ procs' = [procs EXCEPT ![g].pc = "lookup"]
    /\ ProcFrame

\* the rest of CheckCondition: parseCondition, the lookup in the registry
\* and the strategy with its list call
LookupAndRun(g) ==
    /\ procs[g].pc = "lookup"
    /\ \E outcome \in ProcOutcomes :
          procs' = [procs EXCEPT
              ![g].pc = "done",
              ![g].call = StrategyCall(procs[g].checker,
                                       resourceConditionCheckers, now),
              ![g].listed = <<outcome>>,
              ![g].result = <<CheckCondition(procs[g].checker,
                                             resourceConditionCheckers, now,
                                             outcome, TRUE)>>]
    /\ UNCHANGED <<resourceConditionCheckers, regWrites>>
    /\ ProcFrame

ProcNext ==
    \E g \in Goroutines :
        \/ CheckLen(g)
        \/ InitRegistry(g)
        \/ LookupAndRun(g)

SpecProcess == ProcInit /\ [][ProcNext]_vars

(***************************************************************************)
(* Properties of the polling driver.                                       *)
(***************************************************************************)
\* the evaluation times, relative to the entry of WaitForCondition
RelEvalTimes == [i \in 1..Len(evalTimes) |-> evalTimes[i] - startTime]

\* C1: an evaluation that reports conditionMet ends the wait with that
\* WaitResult and no error; when it is the first evaluation, one list call
\* was made and no poll interval was waited for (it ran at the entry time).
C1_SatisfiedAtOnce ==
    pc = "Satisfied" =>
        /\ ret.err = NoError
        /\ ret.result.ConditionMet
        /\ ret = lastResult[1]
        /\ (Len(evalTimes) = 1 =>
                listCalls = 1 /\ evalTimes[1] = startTime /\ now = startTime)

\* C2: the first evaluation of an invocation runs at the entry time, before
\* any poll interval has passed.
C2_FirstEvaluationAtEntry ==
    Len(evalTimes) >= 1 => evalTimes[1] = startTime

\* C3: timeout 10, poll interval 3, never satisfied, not cancelled, list
\* calls that return at once: evaluations at 0, 3, 6, 9 and TimedOut at 10.
C3_TicksUntilDeadline ==
    (/\ pc = "TimedOut"
     /\ checker.Config.Timeout = 10
     /\ checker.Config.CheckInterval = 3
     /\ ctxErr = NoError
     /\ ~blocked)
    => /\ RelEvalTimes = <<0, 3, 6, 9>>
       /\ now - startTime = 10

\* C4: a wait that ends on the deadline returns conditionMet = false with
\* the message "Timeout after <timeout>" and an error naming the condition
\* expression, no earlier than the deadline; the deadline is entry time +
\* timeout and never changes after entry.
C4_TimeoutAtFixedDeadline ==
    /\ [](pc = "TimedOut" =>
            /\ ret.result.ConditionMet = FALSE
            /\ ret.result.Message = Msg("Timeout after %v", <<checker.Config.Timeout>>)
            /\ ret.err = Err("timeout", "timeout waiting for condition %s",
                             <<checker.Config.Condition>>)
            /\ now >= deadline)
    /\ [](pc # "Idle" => deadline = startTime + checker.Config.Timeout)
    /\ [][pc # "Idle" => deadline' = deadline]_vars

\* a wait that timed out after polling at least once
C4_Witness == pc = "TimedOut" /\ Len(evalTimes) >= 1 /\ now >= deadline

\* C5: a wait that ends on the cancellation signal returns conditionMet =
\* false with the message "Context cancelled" and the error of the context,
\* which is not the timeout error of any wait.
C5_CancelledResult ==
    pc = "Cancelled" =>
        /\ ret.result.ConditionMet = FALSE
        /\ ret.result.Message = Msg("Context cancelled", <<>>)
        /\ ctxErr \in ContextErrors
        /\ ret.err = ctxErr
        /\ \A cfg \in WaitConfigs :
              ret.err # Err("timeout", "timeout waiting for condition %s",
                            <<cfg.Condition>>)

\* a wait cancelled between two ticks
C5_Witness == pc = "Cancelled" /\ Len(evalTimes) >= 1 /\ ret.err = ctxErr

\* C6: an evaluation that returns an error ends the wait in Failed with that
\* error and the WaitResult of that evaluation (conditionMet = false); a
\* failed list call is such an error; nothing is evaluated after Failed.
C6_HardErrorFails ==
    /\ []((lastResult # <<>> /\ lastResult[1].err # NoError) =>
            /\ pc = "Failed"
            /\ ret = lastResult[1]
            /\ ret.result.ConditionMet = FALSE)
    /\ []((lastListErr # <<>> /\ lastListErr[1] # NoError) =>
            /\ lastResult[1].err = lastListErr[1]
            /\ ret.err = lastListErr[1])
    /\ [][pc = "Failed" => UNCHANGED <<listCalls, evalTimes, ret>>]_vars

\* a wait failed by a list error on its second tick
C6_Witness ==
    /\ pc = "Failed"
    /\ Len(evalTimes) >= 2
    /\ lastListErr # <<>>
    /\ lastListErr[1] \in ListErrors
    /\ ret.err = lastListErr[1]

\* C7 (as claimed): a transport failure of the list call does not abort the
\* wait; the driver goes on to the next tick.
C7_TransientRetried ==
    (lastListErr # <<>> /\ lastListErr[1].kind = "transport") => pc # "Failed"

\* C7 (amended): a failed list call aborts the wait at that tick whatever the
\* kind of the failure, transport or credentials; so a wait that ends in
\* Satisfied has had no failed list call.
C7_AnyListFailureAborts ==
    /\ (lastListErr # <<>> /\ lastListErr[1].kind \in {"transport", "auth"}) =>
            /\ pc = "Failed"
            /\ ret.err.kind = lastListErr[1].kind
            /\ evalTimes[Len(evalTimes)] = ret.result.LastChecked
    /\ pc = "Satisfied" => lastListErr = <<NoError>>

\* a wait aborted by a transport failure after an earlier unmet tick
C7_Witness ==
    /\ pc = "Failed"
    /\ Len(evalTimes) >= 2
    /\ lastListErr # <<>>
    /\ lastListErr[1].kind = "transport"

\* C8: a wait that ends in TimedOut or Cancelled after an evaluation returns
\* the message of the last evaluation.  (The errors returned on these paths
\* are the context's error and a text naming the condition expression; the
\* WaitResult is the only place a message can be carried in.)
C8_FailureCarriesLastObserved ==
    (pc \in {"TimedOut", "Cancelled"} /\ lastResult # <<>>) =>
        ret.result.Message = lastResult[1].result.Message

\* C9: an invocation that ends without being cancelled has evaluated the
\* condition at least once.
C9_AtLeastOneEvaluation ==
    (pc \in Terminal /\ ctxErr = NoError) => Len(evalTimes) >= 1

\* C20: a wait whose condition expression has no "=" fails with the format
\* error at once, when WaitForCondition is entered and before a poll
\* interval has passed, without any list call and after a single attempt.
C20_MalformedFailsAtOnce ==
    ( /\ parseCondition(checker.Config.Condition).err # NoError
      /\ ctxErr = NoError
      /\ pc \in Terminal )
        => /\ pc = "Failed"
           /\ ret.err = parseCondition(checker.Config.Condition).err
           /\ listCalls = 0
           /\ Len(evalTimes) = 1
           /\ now = startTime

\* C27: the wait returns its terminal result no later than the deadline
\* start + Timeout, also when a list call blocks.
C27_ReturnsByDeadline ==
    pc \in Terminal => now <= startTime + checker.Config.Timeout

\* C28: no evaluation starts once ctx is done or the deadline has passed;
\* when a tick is due together with either, the wait returns Cancelled or
\* TimedOut instead.
C28_NoEvaluationAfterEnd ==
    [][Len(evalTimes') > Len(evalTimes)
         => ctxErr = NoError /\ now < deadline]_vars

(***************************************************************************)
(* Properties of a single evaluation (SpecEval).                           *)
(***************************************************************************)
\* the strategy the evaluation resolved to
EvalStrategy == Resolve(resourceConditionCheckers, checker).fn

\* the evaluation listed objects: the condition parsed, the kind resolved to
\* a built-in strategy and the list call succeeded
EvalListed ==
    /\ pc = "evaluated"
    /\ IssuesList(checker, resourceConditionCheckers)
    /\ input[1].err = NoError

\* section 4.3 of the specification for services: exist and jsonpath are
\* satisfied by presence, loadbalancer by an assigned external address
ServiceObjectSatisfies(o, conditionType) ==
    \/ conditionType \in {s_jsonpath, s_exist, s_exists}
    \/ conditionType = s_loadbalancer /\ o.Status.LoadBalancerIngress > 0

\* <<matched, total>> of the evaluation: the counters the strategy reports
\* in its message; the service strategy keeps no matched counter, there
\* matched is the number of listed services satisfying the condition
EvalCounts ==
    LET m == lastResult[1].result.Message
        conditionType == parseCondition(checker.Config.Condition).conditionType
        Sat(o) == ServiceObjectSatisfies(o, conditionType)
    IN IF EvalStrategy = "checkServiceCondition"
       THEN <<CountTrue([i \in 1..Len(input[1].Items) |-> Sat(input[1].Items[i])]),
              Len(input[1].Items)>>
       ELSE IF Len(m.params) = 3
       THEN <<m.params[1], m.params[2]>>
       ELSE <<0, 0>>

\* C10: for every built-in kind conditionMet is false when total = 0 and
\* otherwise (matched = total) under matchAll, (matched > 0) without it.
C10_AggregationEveryKind ==
    EvalListed =>
        lastResult[1].result.ConditionMet =
            IF EvalCounts[2] = 0 THEN FALSE
            ELSE IF checker.Config.All THEN EvalCounts[1] = EvalCounts[2]
            ELSE EvalCounts[1] > 0

\* the evaluation again, applied to the listed objects named Config.Name only
EvalOfNamedOnly ==
    CheckCondition(checker, resourceConditionCheckers, now,
                   [err |-> NoError,
                    Items |-> FilterByName(input[1].Items, checker.Config.Name)],
                   TRUE)

\* the total the strategy reports in its message
EvalTotal ==
    LET m == lastResult[1].result.Message
    IN IF Len(m.params) = 3 THEN m.params[2]
       ELSE IF Len(m.params) = 1 THEN m.params[1]
       ELSE 0

\* C11: when Config.Name is set, every strategy evaluates only the listed
\* objects with that name: total is the number of such objects, and objects
\* with another name change nothing in the result.
C11_OnlyNamedObjectsCount ==
    EvalListed /\ checker.Config.Name # "" =>
        /\ EvalTotal = Len(FilterByName(input[1].Items, checker.Config.Name))
        /\ lastResult[1] = EvalOfNamedOnly

\* a character sequence as the text it stands for
RECURSIVE Text(_)
Text(s) == IF s = <<>> THEN "" ELSE Head(s) \o Text(Tail(s))

\* C12: the message of an evaluation is "<matched>/<total> <kind> meet
\* condition <conditionExpr>" when objects were counted and "No matching
\* <kind> found" when none was, <kind> being Config.Resource as given; the
\* wait for deployment my-app with condition=Available and not All, against
\* one deployment whose Available condition is True, is met with the
\* message "1/1 deployment meet condition condition=Available".
C12_MessageForm ==
    LET cfg == checker.Config
        m == lastResult[1].result.Message
        kind == Text(cfg.Resource)
    IN /\ EvalListed =>
            \/ m = Msg("No matching " \o kind \o " found", <<>>)
            \/ /\ m.fmt = "%d/%d " \o kind \o " meet condition %s"
               /\ m.params = <<EvalCounts[1], EvalCounts[2], cfg.Condition>>
               /\ EvalCounts[2] > 0
       /\ ( /\ EvalListed
            /\ cfg.Resource = s_deployment
            /\ cfg.Name = "my-app"
            /\ cfg.Condition = c_conditionAvailable
            /\ ~cfg.All
            /\ input[1].Items = <<Object("my-app", GoodStatus)>> )
          => /\ lastResult[1].result.ConditionMet
             /\ m = Msg("%d/%d deployment meet condition %s",
                        <<1, 1, c_conditionAvailable>>)

\* the listed objects the WaitConfig selects: those named Config.Name when
\* a name is given, all of them otherwise
EvalSelected ==
    IF checker.Config.Name # ""
    THEN FilterByName(input[1].Items, checker.Config.Name)
    ELSE input[1].Items

\* C13: an evaluation whose (name-filtered) result set is empty is not an
\* error: it returns conditionMet = false and a nil error, so that the
\* driver polls on.
C13_EmptyResultSetUnmet ==
    EvalListed /\ Len(EvalSelected) = 0 =>
        /\ lastResult[1].err = NoError
        /\ ~lastResult[1].result.ConditionMet

\* <<singular, plural>> of the built-in kinds
BuiltInKinds ==
    {<<s_node, s_nodes>>, <<s_pod, s_pods>>, <<s_deployment, s_deployments>>,
     <<s_service, s_services>>, <<s_daemonset, s_daemonsets>>,
     <<s_statefulset, s_statefulsets>>, <<s_job, s_jobs>>,
     <<s_cronjob, s_cronjobs>>, <<s_ingress, s_ingresses>>}

\* the strategy a resource name resolves to in the evaluation's registry
StrategyOf(resource) ==
    Resolve(resourceConditionCheckers,
            [checker EXCEPT !.Config.Resource = resource]).fn

\* C17: the singular and the plural name of each built-in kind resolve to
\* the same strategy, which is not the generic fallback; any other kind
\* resolves to the generic fallback.
C17_SingularAndPluralResolveAlike ==
    pc = "evaluated" =>
        /\ \A k \in BuiltInKinds :
              checker.Config.Resource \in {k[1], k[2]} =>
                  /\ EvalStrategy = StrategyOf(k[1])
                  /\ EvalStrategy = StrategyOf(k[2])
                  /\ EvalStrategy # "checkGenericCondition"
        /\ checker.Config.Resource = s_widgets =>
              EvalStrategy = "checkGenericCondition"

\* C18: an evaluation of a well-formed condition on a kind that is not
\* registered returns a WaitResult without an error.
C18_UnknownKindNoHardError ==
    ( /\ pc = "evaluated"
      /\ parseCondition(checker.Config.Condition).err = NoError
      /\ EvalStrategy = "checkGenericCondition" )
        => lastResult[1].err = NoError

\* the kind of the evaluation's condition expression
EvalConditionType == parseCondition(checker.Config.Condition).conditionType

\* the literal numeric rules: does object o satisfy the rule of strategy fn
NumericRule(fn, o) ==
    IF fn = "checkDaemonSetCondition"
    THEN o.Status.DesiredNumberScheduled = o.Status.NumberReady
    ELSE IF fn = "checkStatefulSetCondition"
    THEN <<o.Status.ReadyReplicas>> = o.Status.Replicas
    ELSE o.Status.Succeeded > 0

\* the evaluation applies a numeric rule: a daemonset or statefulset under
\* condition or ready, a job under complete; no name is given, so that
\* every listed object is evaluated
EvalNumeric ==
    /\ EvalListed
    /\ checker.Config.Name = ""
    /\ Len(input[1].Items) > 0
    /\ \/ /\ EvalStrategy \in {"checkDaemonSetCondition", "checkStatefulSetCondition"}
          /\ EvalConditionType \in {s_condition, s_ready}
       \/ /\ EvalStrategy = "checkJobCondition"
          /\ EvalConditionType = s_complete

\* C21: a daemonset is counted as matched iff desired-number-scheduled =
\* number-ready, a statefulset iff its declared replica count = its
\* ready-replica count, a job under complete iff its succeeded count > 0.
C21_NumericReadinessLiteral ==
    EvalNumeric =>
        /\ EvalCounts[1] =
              CountTrue([i \in 1..Len(input[1].Items) |->
                            NumericRule(EvalStrategy, input[1].Items[i])])
        /\ EvalCounts[2] = Len(input[1].Items)

\* a daemonset with no pod desired and none ready is counted, one with a
\* pod desired and none ready is not
C21_Witness ==
    /\ EvalNumeric
    /\ EvalStrategy = "checkDaemonSetCondition"
    /\ input[1].Items = <<Object("other", BareStatus), Object("my-app", BadStatus)>>
    /\ EvalCounts = <<1, 2>>

\* a small count as the text fmt prints for it
DigitText(n) == <<"0", "1", "2", "3">>[n + 1]

\* the field .status.readyReplicas of o, as a string, equals the literal
\* that ends the condition value
ReadyReplicasEqualsLiteral(o, conditionValue) ==
    conditionValue[Len(conditionValue)] = DigitText(o.Status.ReadyReplicas)

\* C22: under jsonpath={.status.readyReplicas}=1 an object is counted as
\* matched exactly when its readyReplicas field, as a string, equals the
\* literal 1: an object that only exists is not counted, an object with
\* the field at 1 is.
C22_JsonPathComparesLiteral ==
    ( /\ EvalListed
      /\ EvalStrategy # "checkServiceCondition"
      /\ checker.Config.Condition = c_jsonpathReadyReplicasEq1
      /\ checker.Config.Name = ""
      /\ Len(input[1].Items) > 0 )
        => EvalCounts[1] =
              CountTrue([i \in 1..Len(input[1].Items) |->
                  ReadyReplicasEqualsLiteral(
                      input[1].Items[i],
                      parseCondition(checker.Config.Condition).conditionValue)])

\* the condition kinds each strategy has a branch for in its counting loop
HandledKinds(fn) ==
    CASE fn = "checkNodeCondition" -> {s_condition}
      [] fn = "checkPodCondition" -> {s_condition, s_phase}
      [] fn = "checkDeploymentCondition" -> {s_condition}
      [] fn = "checkDaemonSetCondition" -> {s_condition, s_ready}
      [] fn = "checkStatefulSetCondition" -> {s_condition, s_ready}
      [] fn = "checkJobCondition" -> {s_condition, s_complete}
      [] fn = "checkCronJobCondition" -> {s_jsonpath, s_exist, s_exists}
      [] fn = "checkIngressCondition" ->
            {s_jsonpath, s_exist, s_exists, s_loadbalancer}
      [] OTHER -> {}

\* the strategies that count per object
CountingStrategies ==
    {"checkNodeCondition", "checkPodCondition", "checkDeploymentCondition",
     "checkDaemonSetCondition", "checkStatefulSetCondition",
     "checkJobCondition", "checkCronJobCondition", "checkIngressCondition"}

\* the evaluation ran a counting strategy on a well-formed condition of a
\* kind the strategy has no branch for, and its result set was not empty
EvalUnhandledKind ==
    /\ EvalListed
    /\ EvalStrategy \in CountingStrategies
    /\ EvalConditionType \notin HandledKinds(EvalStrategy)
    /\ Len(EvalSelected) > 0

C14_CheckOnceReadChangesNothing ==
    [][(reads' = reads + 1 /\ tfstate[1].CheckOnce /\ tfstate[1].ConditionMet)
         => /\ listCalls' = listCalls
            /\ evalTimes' = evalTimes
            /\ tfstate'[1].ConditionMet = tfstate[1].ConditionMet
            /\ tfstate'[1].LastChecked = tfstate[1].LastChecked
            /\ tfstate'[1].Message = tfstate[1].Message
            /\ tfstate' = tfstate]_vars

\* a second Read of a check-once declaration whose stored result is met
C14_Witness ==
    /\ lastOp = "Read"
    /\ reads >= 2
    /\ tfstate # <<>>
    /\ tfstate[1].CheckOnce
    /\ tfstate[1].ConditionMet

\* C15: a Read of a declaration stored with check_once = false evaluates
\* the condition afresh (the driver runs again).
C15_ReadReevaluates ==
    [][(reads' = reads + 1 /\ ~tfstate[1].CheckOnce)
         => Len(evalTimes') > Len(evalTimes)]_vars

\* C16: an Update of an existing declaration, whatever its resource type,
\* reports the error "Update not supported", performs no list call and no
\* evaluation and leaves the stored state unchanged.
C16_UpdateRejected ==
    [][lastOp' = "Update"
         => /\ Len(diags') = 1
            /\ diags'[1].summary = "Update not supported"
            /\ tfstate' = tfstate
            /\ tfstate' # <<>>
            /\ listCalls' = listCalls
            /\ evalTimes' = evalTimes]_vars

\* an Update of a stored statefulsets declaration has returned
C16_Witness ==
    /\ lastOp = "Update"
    /\ tfstate # <<>>
    /\ checker.Config.Resource = s_statefulsets
    /\ diags # <<>>

\* C29: every state Create stores has condition_met = true; when
\* WaitForCondition returns an error (timeout, cancellation or a hard
\* error) or the client cannot be built, Create reports one error
\* diagnostic and stores no state.
C29_StateOnlyOnSuccess ==
    /\ tfstate # <<>> =>
          /\ tfstate[1].ConditionMet
          /\ ret.err = NoError
          /\ pc = "applied"
    /\ (lastOp = "Create" /\ ret.err # NoError) =>
          /\ pc = "createFailed"
          /\ tfstate = <<>>
          /\ diags = <<Diagnostic("Wait operation failed", ret.err.msg)>>
    /\ (lastOp = "Create" /\ checker.Client = "none") =>
          /\ pc = "createFailed"
          /\ tfstate = <<>>
          /\ Len(diags) = 1
          /\ diags[1].summary = "Error creating Kubernetes client"

\* a Create whose wait timed out has returned
C29_Witness ==
    /\ lastOp = "Create"
    /\ ret.err.kind = "timeout"
    /\ pc = "createFailed"
    /\ tfstate = <<>>

(***************************************************************************)
(* Properties of parseCondition (SpecParse).                               *)
(***************************************************************************)
\* t is raw without the white space at its two ends: raw is white space,
\* then t, then white space, and t neither starts nor ends with white space
IsTrimOf(t, raw) ==
    /\ Len(t) <= Len(raw)
    /\ \E a \in 0..(Len(raw) - Len(t)) :
          /\ SubSeq(raw, a + 1, a + Len(t)) = t
          /\ \A i \in 1..a : IsSpace(raw[i])
          /\ \A i \in (a + Len(t) + 1)..Len(raw) : IsSpace(raw[i])
    /\ t # <<>> => ~IsSpace(t[1]) /\ ~IsSpace(t[Len(t)])

\* t is raw without the white space at its two ends, in lower case
IsLowerTrimOf(t, raw) ==
    /\ Len(t) <= Len(raw)
    /\ \E a \in 0..(Len(raw) - Len(t)) :
          /\ \A n \in 1..Len(t) :
                /\ t[n] = ToLowerChar(raw[a + n])
                /\ n \in {1, Len(t)} => ~IsSpace(raw[a + n])
          /\ \A i \in 1..a : IsSpace(raw[i])
          /\ \A i \in (a + Len(t) + 1)..Len(raw) : IsSpace(raw[i])

\* C19: a condition expression is cut at its first "=": what precedes it,
\* trimmed and lower-cased, is the kind, and all that follows it, later
\* "=" included, trimmed at its two ends only, is the value.
\* "condition=Ready" gives (condition, Ready) and
\* "jsonpath={.status.readyReplicas}=3" gives
\* (jsonpath, {.status.readyReplicas}=3).
C19_SplitAtFirstEquals ==
    pc = "parsed" =>
        LET c == checker.Config.Condition
            p == parsed[1]
        IN /\ c = c_conditionReady =>
                 p.conditionType = s_condition /\ p.conditionValue = s_Ready
           /\ c = c_jsonpathReadyReplicas =>
                 /\ p.conditionType = s_jsonpath
                 /\ p.conditionValue = SubSeq(c, 10, Len(c))
           /\ \A i \in 1..Len(c) :
                 (c[i] = "=" /\ \A j \in 1..(i-1) : c[j] # "=") =>
                     /\ p.err = NoError
                     /\ IsLowerTrimOf(p.conditionType, SubSeq(c, 1, i - 1))
                     /\ \A n \in 1..Len(p.conditionType) :
                           p.conditionType[n] # "B"
                     /\ IsTrimOf(p.conditionValue, SubSeq(c, i + 1, Len(c)))

\* the jsonpath expression of the documentation has been parsed
C19_Witness ==
    /\ pc = "parsed"
    /\ checker.Config.Condition = c_jsonpathReadyReplicas
    /\ parsed[1].err = NoError
    /\ Len(parsed[1].conditionValue) > 0

(***************************************************************************)
(* Properties of the credential source (SpecCred).                         *)
(***************************************************************************)
\* the source the documented priority order selects
DocumentedSource(a) ==
    IF a.kubeConfigTypeValue = "raw"
    THEN ClientSource(ClientConfig(a.kubeConfigValue, "", ""))
    ELSE IF a.kubeConfigTypeValue = "file"
    THEN ClientSource(ClientConfig("", a.kubeConfigValue, ""))
    ELSE IF a.kubeConfigTypeValue = "auto"
    THEN ClientSource(ClientConfig("", "", ""))
    ELSE IF a.providerConfig # <<>>
    THEN LET p == a.providerConfig[1]
         IN IF p.KubeConfigType = "raw"
            THEN ClientSource(ClientConfig(p.KubeConfig, "", ""))
            ELSE IF p.KubeConfigType = "file"
            THEN ClientSource(ClientConfig("", p.KubeConfig, ""))
            ELSE ClientSource(ClientConfig("", "", ""))
    ELSE ClientSource(ClientConfig("", "", ""))

\* C23: with kube_config_type raw, file or auto the client is loaded from
\* the resource-level values only; with kube_config_type omitted or
\* provider it is loaded from the provider's source whatever the resource's
\* kube_config is, and by auto-discovery when there is no provider
\* configuration.
C23_CredentialSourcePriority ==
    pc = "configured" =>
        ClientSource(kubeClientConfig[1]) = DocumentedSource(auth[1])

(***************************************************************************)
(* Properties of the ids (SpecIds).                                        *)
(***************************************************************************)
\* C24: any two declarations created by the provider have different ids.
C24_IdsUnique ==
    \A i, j \in 1..Len(created) : i # j => created[i] # created[j]

(***************************************************************************)
(* Properties of several invocations in one process (SpecProcess).         *)
(***************************************************************************)
\* C25: every evaluation of an invocation uses the WaitConfig and the
\* client of that invocation: the strategy runs on the invocation's own
\* checker, and the result is what CheckCondition gives for that checker
\* alone, whatever other invocations the process runs.
C25_OwnSpecAndClient ==
    \A g \in Goroutines :
        procs[g].pc = "done" =>
            /\ procs[g].call.recv = procs[g].checker
            /\ procs[g].call.listArgs[1] = procs[g].checker.Client
            /\ procs[g].result[1] =
                  CheckCondition(procs[g].checker,
                                 initResourceCheckers(procs[g].checker),
                                 now, procs[g].listed[1], TRUE)

\* C26: the registry is assigned at most once, and no goroutine is about
\* to read it while another is about to assign it.
C26_RegistryBuiltOnce ==
    /\ regWrites <= 1
    /\ \A g, h \in Goroutines :
          g # h => ~(procs[g].pc = "init" /\ procs[h].pc \in {"start", "lookup"})

====
